---------------------------- MODULE Spec2Model ----------------------------
(*************************************************************************)
(* A model of src/power_monitor.py: the Snapshot (class PowerData), the   *)
(* Collector thread (DataCollector.run) and the Renderer (main_loop),     *)
(* sharing one threading.Lock.                                            *)
(*                                                                        *)
(* Representation of the program's values:                                *)
(*   - the text a query returns is the function from each key the code    *)
(*     searches for to the outcome of that search: <<>> when the pattern  *)
(*     does not match, <<v>> when it matches with captured value v (for   *)
(*     the '"Key" = Yes' substring tests, <<TRUE>> when the text holds    *)
(*     "= Yes", <<FALSE>> when it holds the key with another value);      *)
(*   - floats are fixed-point integers: voltage and adapter_voltage in    *)
(*     mV (the code stores V = mV/1000), power_watts in 0.01 W (the code  *)
(*     rounds to 2 decimals), temperature in 0.1 degC and                 *)
(*     max_capacity_percent in 0.1 % (the code rounds both to 1           *)
(*     decimal), poll_interval, poll_latency and the clock in ms;         *)
(*   - Python integers are unbounded and TLC's are 32 bits wide, so the   *)
(*     width of the amperage encoding is the parameter AmpBits: SignBit   *)
(*     and Modulus stand for the code's 2**63 and 2**64.                  *)
(*************************************************************************)
EXTENDS Integers, Sequences, FiniteSets, TLC

VARIABLES
    data,             \* the shared PowerData object
    lock,             \* who holds the threading.Lock: "none", "collector", "renderer"
    running,          \* DataCollector.running, the cancellation flag
    last_slow_check,  \* DataCollector.last_slow_check
    cpc,              \* the Collector's position in run()
    start_time,       \* run(): start_time
    ioreg_out,        \* run(): ioreg_out, the primary text of this cycle
    prof_out,         \* run(): the Condition match on system_profiler's text
    lpm_out,          \* run(): the lowpowermode match on pmset's text
    sleep_for,        \* run(): the argument evaluated for time.sleep
    rpc,              \* the main thread's position in main_loop() and main()
    key,              \* main_loop(): key
    size,             \* main_loop(): what getmaxyx() reported this frame
    seen,             \* what the frame being drawn has read from the Snapshot
    now,              \* time.time(), in ms
    cycles,           \* history: primary write batches begun so far
    ver,              \* history: per field group, the batch that last wrote it
    prev,             \* history: the Snapshot when the Collector last took the lock
    appended,         \* history: every sample ever appended to power_history
    prev_text,        \* history: the primary text of the cycle before this one
    slows,            \* history: slow-check write batches done so far
    quit_at           \* history: where the Collector was when the flag was cleared

vars == <<data, lock, running, last_slow_check, cpc, start_time, ioreg_out,
          prof_out, lpm_out, sleep_for, rpc, key, size, seen, now, cycles,
          ver, prev, appended, prev_text, slows, quit_at>>

-----------------------------------------------------------------------------
(* Bounds of the model *)

\* Primary cycles the Collector may begin in Spec.
MaxCycles == 2

\* Primary cycles the Collector may begin in SpecParse.
MaxParseCycles == 2

\* Primary cycles the Collector may begin in SpecIdem (two pairs of cycles).
MaxIdemCycles == 4

\* Primary cycles the Collector may begin in SpecSlow (enough for 30 s to pass).
MaxSlowCycles == 7

\* Primary cycles the Collector may begin in FairSpec.
MaxFairCycles == 2

\* Primary cycles the Collector may begin in SpecGraph (the peak of cycle 2
\* leaves the graph's columns).
MaxGraphCycles == 63

\* Primary cycles the Collector may begin in SpecHist (past the history capacity).
MaxHistCycles == 150

\* Width in bits of the amperage encoding (64 in the code).
AmpBits == 16

\* time.time() when the Collector starts, in ms (any value above SlowPeriod).
StartTime == 100000

-----------------------------------------------------------------------------
(* Program constants *)

\* deque(maxlen=100)
HistCap == 100

\* "if mins == 65535"
TimeSentinel == 65535

\* "time.time() - self.last_slow_check > 30", in ms
SlowPeriod == 30000

\* line 72: the timeout of a query, in ms
QueryTimeout == 5000

\* "if amp > 2**63: amp -= 2**64"
SignBit == 2 ^ (AmpBits - 1)

Modulus == 2 ^ AmpBits

\* The three presets of main_loop, in ms.
EcoInterval == 5000

BalancedInterval == 2000

PerformanceInterval == 500

-----------------------------------------------------------------------------
(* The text of a query, as the outcome of each search the code makes on it *)

FlagKeys == {"ExternalConnected", "AppleRawExternalConnected",
             "IsCharging", "FullyCharged"}

NumberKeys == {"CurrentCapacity", "MaxCapacity", "TimeRemaining",
               "Temperature", "Voltage", "InstantAmperage", "Amperage",
               "CycleCount", "DesignCapacity", "AppleRawMaxCapacity"}

TextKeys == FlagKeys \cup NumberKeys \cup {"AdapterDetails"}

\* run_command's "" (a failed or timed-out query): no pattern matches.
EmptyText == [k \in TextKeys |-> <<>>]

Found(text, k) == text[k] # <<>>

Group1(text, k) == text[k][1]

\* '"Key" = Yes' in text
HasYes(text, k) == text[k] = <<TRUE>>


-----------------------------------------------------------------------------
(* PowerData *)

\* PowerData.__init__
InitData ==
    [power_source         |-> "Unknown",
     battery_percent      |-> 0,
     charging_status      |-> "Unknown",
     time_remaining       |-> "Unknown",
     cycle_count          |-> 0,
     condition            |-> "Checking...",
     max_capacity_percent |-> 1000,
     charger_wattage      |-> 0,
     charger_connected    |-> FALSE,
     fully_charged        |-> FALSE,
     low_power_mode       |-> FALSE,
     temperature          |-> 0,
     voltage              |-> 0,
     amperage             |-> 0,
     power_watts          |-> 0,
     adapter_voltage      |-> 0,
     adapter_current      |-> 0,
     adapter_watts        |-> 0,
     serial               |-> "Unknown",
     design_capacity      |-> 0,
     current_capacity     |-> 0,
     mode                 |-> "BALANCED",
     poll_interval        |-> BalancedInterval,
     power_history        |-> <<>>,
     temp_history         |-> <<>>,
     last_update_time     |-> 0,
     poll_latency         |-> 0]

\* deque(maxlen=HistCap).append(x): the oldest sample leaves when the deque is full.
DequeAppendDropsNewest(h, x) ==
    IF Len(h) < HistCap THEN Append(h, x) ELSE h

DequeAppend(h, x) ==
    IF Len(h) < HistCap THEN Append(h, x) ELSE Append(Tail(h), x)

-----------------------------------------------------------------------------
(* Conversions of the Field Parser *)

Abs(x) == IF x < 0 THEN -x ELSE x

\* round(n / d) for n >= 0, d > 0: to the nearest, an exact tie to the even
\* neighbour (Python's round).
RoundDiv(n, d) ==
    LET q == n \div d
        r == n % d
    IN  IF 2 * r < d THEN q
        ELSE IF 2 * r > d THEN q + 1
        ELSE IF q % 2 = 0 THEN q ELSE q + 1

Digits == <<"0", "1", "2", "3", "4", "5", "6", "7", "8", "9">>

\* str(n) for n >= 0, as the f-string formats an int
RECURSIVE IntToStr(_)
IntToStr(n) ==
    IF n < 10 THEN Digits[n + 1]
    ELSE IntToStr(n \div 10) \o Digits[(n % 10) + 1]

\* lines 108-110, without the sentinel test
FormatTimeNoSentinel(mins) ==
    IntToStr(mins \div 60) \o "h " \o IntToStr(mins % 60) \o "m"

\* lines 108-110: mins -> the time_remaining string
FormatTime(mins) ==
    IF mins = TimeSentinel THEN "Calculating..."
    ELSE IntToStr(mins \div 60) \o "h " \o IntToStr(mins % 60) \o "m"

\* line 114: round((raw / 10) - 273.15, 1), in 0.1 degC.  raw - 2731.5 is
\* always a tie; in binary floating point (raw/10) - 273.15 falls below the
\* tie exactly when raw ends in 4 and above it otherwise (raw in 2732..3499).
DeciKelvinToC(raw) ==
    IF raw % 10 = 4 THEN raw - 2732 ELSE raw - 2731

\* lines 124-126: the signed amperage of a captured integer
SignedAmperage(amp) ==
    IF amp > SignBit THEN amp - Modulus ELSE amp

\* line 128: round(voltage * abs(amperage) / 1000, 2), in 0.01 W, from the
\* voltage in mV and the amperage in mA
PowerWatts(mv, ma) == RoundDiv(mv * Abs(ma), 10000)

\* line 140: round((current / design) * 100, 1), in 0.1 %
CapacityPercent(current, design) == RoundDiv(current * 1000, design)

-----------------------------------------------------------------------------
(* The Collector's primary write batch (lines 86-154), in three parts *)

\* lines 88-103 with IsCharging tested before FullyCharged
ParseStatusChargingFirst(d, text) ==
    LET ext_conn == HasYes(text, "ExternalConnected")
                        \/ HasYes(text, "AppleRawExternalConnected")
        is_charging == HasYes(text, "IsCharging")
        fully_charged == HasYes(text, "FullyCharged")
    IN  [d EXCEPT
            !.power_source = IF ext_conn THEN "AC Power" ELSE "Battery",
            !.charger_connected = ext_conn,
            !.battery_percent =
                IF Found(text, "CurrentCapacity") /\ Found(text, "MaxCapacity")
                THEN Group1(text, "CurrentCapacity") ELSE @,
            !.charging_status =
                IF is_charging THEN "Charging"
                ELSE IF fully_charged THEN "Fully Charged"
                ELSE IF ~ext_conn THEN "Discharging" ELSE "Connected"]

\* lines 88-103: source, connection, percentage, charging status
ParseStatus(d, text) ==
    LET ext_conn == HasYes(text, "ExternalConnected")
                        \/ HasYes(text, "AppleRawExternalConnected")
        is_charging == HasYes(text, "IsCharging")
        fully_charged == HasYes(text, "FullyCharged")
    IN  [d EXCEPT
            !.power_source = IF ext_conn THEN "AC Power" ELSE "Battery",
            !.charger_connected = ext_conn,
            !.battery_percent =
                IF Found(text, "CurrentCapacity") /\ Found(text, "MaxCapacity")
                THEN Group1(text, "CurrentCapacity") ELSE @,
            !.charging_status =
                IF fully_charged THEN "Fully Charged"
                ELSE IF is_charging THEN "Charging"
                ELSE IF ~ext_conn THEN "Discharging" ELSE "Connected"]

\* lines 120-121: the amperage match, InstantAmperage before Amperage
AmperageMatch(text) ==
    IF Found(text, "InstantAmperage") THEN text["InstantAmperage"]
    ELSE text["Amperage"]

\* lines 106-126: time remaining, temperature, voltage, amperage
ParseReadings(d, text) ==
    [d EXCEPT
        !.time_remaining =
            IF Found(text, "TimeRemaining")
            THEN FormatTime(Group1(text, "TimeRemaining")) ELSE @,
        !.temperature =
            IF Found(text, "Temperature")
            THEN DeciKelvinToC(Group1(text, "Temperature")) ELSE @,
        !.voltage =
            IF Found(text, "Voltage") THEN Group1(text, "Voltage") ELSE @,
        !.amperage =
            IF AmperageMatch(text) # <<>>
            THEN SignedAmperage(AmperageMatch(text)[1]) ELSE @]

\* lines 128-129 as they would be if the power were recomputed only when
\* both voltage and amperage were found
RecomputePowerWhenFound(d, text) ==
    IF Found(text, "Voltage") /\ AmperageMatch(text) # <<>>
    THEN LET w == PowerWatts(d.voltage, d.amperage)
         IN  [d EXCEPT !.power_watts = w,
                       !.power_history = DequeAppend(@, w)]
    ELSE [d EXCEPT !.power_history = DequeAppend(@, d.power_watts)]

\* lines 128-129: the power draw, from the stored voltage and amperage, and
\* its history
RecomputePower(d, text) ==
    LET w == PowerWatts(d.voltage, d.amperage)
    IN  [d EXCEPT !.power_watts = w,
                  !.power_history = DequeAppend(@, w)]

\* lines 105-129
ParseMetrics(d, text) == RecomputePower(ParseReadings(d, text), text)

\* lines 143-151: the adapter sub-fields, searched in the brace group only
ParseAdapter(d, text) ==
    IF ~Found(text, "AdapterDetails") THEN d
    ELSE LET ad == Group1(text, "AdapterDetails")
         IN  [d EXCEPT
                 !.adapter_voltage =
                     IF ad["AdapterVoltage"] # <<>>
                     THEN ad["AdapterVoltage"][1] ELSE @,
                 !.adapter_current =
                     IF ad["Current"] # <<>> THEN ad["Current"][1] ELSE @,
                 !.charger_wattage =
                     IF ad["Watts"] # <<>> THEN ad["Watts"][1] ELSE @]

\* lines 132-140 with the health percentage taken against the design
\* capacity of the cycle before
ParseCapacitiesStaleDesign(d, text) ==
    LET d1 == [d EXCEPT
                  !.cycle_count =
                      IF Found(text, "CycleCount")
                      THEN Group1(text, "CycleCount") ELSE @,
                  !.design_capacity =
                      IF Found(text, "DesignCapacity")
                      THEN Group1(text, "DesignCapacity") ELSE @]
    IN  IF ~Found(text, "AppleRawMaxCapacity") THEN d1
        ELSE LET cur == Group1(text, "AppleRawMaxCapacity")
             IN  [d1 EXCEPT
                     !.current_capacity = cur,
                     !.max_capacity_percent =
                         IF d.design_capacity > 0
                         THEN CapacityPercent(cur, d.design_capacity)
                         ELSE @]

\* lines 132-140: cycle count and capacities
ParseCapacities(d, text) ==
    LET d1 == [d EXCEPT
                  !.cycle_count =
                      IF Found(text, "CycleCount")
                      THEN Group1(text, "CycleCount") ELSE @,
                  !.design_capacity =
                      IF Found(text, "DesignCapacity")
                      THEN Group1(text, "DesignCapacity") ELSE @]
    IN  IF ~Found(text, "AppleRawMaxCapacity") THEN d1
        ELSE LET cur == Group1(text, "AppleRawMaxCapacity")
             IN  [d1 EXCEPT
                     !.current_capacity = cur,
                     !.max_capacity_percent =
                         IF d1.design_capacity > 0
                         THEN CapacityPercent(cur, d1.design_capacity)
                         ELSE @]

\* lines 131-154: health, charger details and the poll latency
ParseHealth(d, text, latency) ==
    [ParseAdapter(ParseCapacities(d, text), text) EXCEPT
        !.poll_latency = latency]

\* lines 165-168 with the slow check also switching the poll mode to ECO
\* when the low power mode is on
WriteSlowFieldsSetsEco(d, prof, lpm) ==
    [d EXCEPT
        !.condition = IF prof # <<>> THEN prof[1] ELSE @,
        !.low_power_mode = IF lpm # <<>> THEN lpm[1] = 1 ELSE FALSE,
        !.mode = IF lpm # <<>> /\ lpm[1] = 1 THEN "ECO" ELSE @,
        !.poll_interval = IF lpm # <<>> /\ lpm[1] = 1 THEN EcoInterval ELSE @]

\* lines 165-168: the slow check's write batch, from the Condition match
\* and the lowpowermode match
WriteSlowFields(d, prof, lpm) ==
    [d EXCEPT
        !.condition = IF prof # <<>> THEN prof[1] ELSE @,
        !.low_power_mode = IF lpm # <<>> THEN lpm[1] = 1 ELSE FALSE]

-----------------------------------------------------------------------------
(* The texts the queries may return *)

\* On AC power, charging; capacities in percent.
BlobA ==
    [ExternalConnected         |-> <<TRUE>>,
     AppleRawExternalConnected |-> <<TRUE>>,
     IsCharging                |-> <<TRUE>>,
     FullyCharged              |-> <<FALSE>>,
     CurrentCapacity           |-> <<80>>,
     MaxCapacity               |-> <<100>>,
     TimeRemaining             |-> <<125>>,
     Temperature               |-> <<3031>>,
     Voltage                   |-> <<12400>>,
     InstantAmperage           |-> <<1500>>,
     Amperage                  |-> <<1400>>,
     CycleCount                |-> <<42>>,
     DesignCapacity            |-> <<5000>>,
     AppleRawMaxCapacity       |-> <<4500>>,
     AdapterDetails            |-> << [AdapterVoltage |-> <<20000>>,
                                       Current        |-> <<3000>>,
                                       Watts          |-> <<60>>] >>]

\* On battery, discharging; capacities in raw counts, the amperage in the
\* unsigned encoding of a negative value, no adapter.
BlobB ==
    [ExternalConnected         |-> <<FALSE>>,
     AppleRawExternalConnected |-> <<FALSE>>,
     IsCharging                |-> <<FALSE>>,
     FullyCharged              |-> <<FALSE>>,
     CurrentCapacity           |-> <<4000>>,
     MaxCapacity               |-> <<5000>>,
     TimeRemaining             |-> <<TimeSentinel>>,
     Temperature               |-> <<2984>>,
     Voltage                   |-> <<12000>>,
     InstantAmperage           |-> <<Modulus - 500>>,
     Amperage                  |-> <<Modulus - 480>>,
     CycleCount                |-> <<43>>,
     DesignCapacity            |-> <<5200>>,
     AppleRawMaxCapacity       |-> <<4800>>,
     AdapterDetails            |-> <<>>]

\* text without key k
Drop(text, k) == [text EXCEPT ![k] = <<>>]

\* text with key k captured as v
With(text, k, v) == [text EXCEPT ![k] = <<v>>]

\* Raw amperage values: small ones, both sides of the sign bit, the top of
\* the unsigned range, and a literal with a minus sign.
AmperageRaws ==
    {0, 500, SignBit - 1, SignBit, SignBit + 1, Modulus - 1, -500}

TimeRaws == {0, 59, 60, 125, 65534, TimeSentinel}

\* The primary texts of SpecParse: the two full texts, each with one key
\* missing, the failed query, and the full texts with the amperage, the time
\* remaining, the flags and the adapter group varied.
ParseBlobs ==
    {EmptyText, BlobA, BlobB}
        \cup {Drop(BlobA, k) : k \in TextKeys}
        \cup {Drop(BlobB, k) : k \in TextKeys}
        \cup {With(BlobB, "InstantAmperage", r) : r \in AmperageRaws}
        \cup {With(Drop(BlobA, "InstantAmperage"), "Amperage", r) :
                 r \in {SignBit, Modulus - 1}}
        \cup {Drop(Drop(BlobA, "InstantAmperage"), "Amperage")}
        \cup {With(BlobA, "TimeRemaining", m) : m \in TimeRaws}
        \cup {With(BlobA, "FullyCharged", TRUE),
              With(BlobA, "IsCharging", FALSE),
              With(BlobA, "ExternalConnected", FALSE),
              With(With(BlobA, "CurrentCapacity", 100), "FullyCharged", TRUE),
              With(BlobB, "CurrentCapacity", 0),
              With(BlobA, "AdapterDetails",
                   [AdapterVoltage |-> <<>>, Current |-> <<1500>>,
                    Watts |-> <<>>])}

\* The primary texts of Spec.
SmallBlobs == {BlobA, BlobB}

\* The primary text of cycle n of SpecHist: a different power draw each cycle.
HistBlob(n) == With(BlobA, "InstantAmperage", 10 * n)

\* The primary text of cycle n of SpecGraph: no power draw in the first
\* cycle, a peak in the second, lower draws after it.
GraphBlob(n) ==
    With(BlobA, "InstantAmperage",
         IF n = 1 THEN 0 ELSE IF n = 2 THEN 2000 ELSE 100 * (n % 5))

\* The Condition match on system_profiler's text, in Spec: none, or a word.
SmallProfOuts == {<<>>, <<"Normal">>}

\* The lowpowermode match on pmset's text, in Spec: none, or the digit 1.
SmallLpmOuts == {<<>>, <<1>>}

-----------------------------------------------------------------------------
(* Initial state: main_loop lines 222-227, before either loop has stepped *)

NoVersion == [status |-> -1, metrics |-> -1, health |-> -1]

\* Nothing read yet by the frame being drawn.
NoSeen ==
    [power_source      |-> "",
     charger_connected |-> FALSE,
     amperage_top      |-> 0,
     amperage_bottom   |-> 0,
     top               |-> NoVersion,
     bottom            |-> NoVersion,
     history           |-> <<>>,
     graph             |-> <<>>]

\* quit_at before the flag is cleared
NotQuit == [cycles |-> 0, slows |-> 0, phase |-> "none"]

\* The part of a cycle a position of run() lies in: before the primary write
\* batch has begun, from there to the end of the slow check's write batch, or
\* after the last write of the cycle.
PhaseOf(pc) ==
    IF pc \in {"fetch", "lock_primary"} THEN "before_batch"
    ELSE IF pc \in {"status", "metrics", "health", "slow_test", "slow_fetch",
                    "lock_slow", "slow_write"} THEN "in_cycle"
    ELSE "idle"

Init ==
    /\ data = InitData
    /\ lock = "none"
    /\ running = TRUE
    /\ last_slow_check = 0
    /\ cpc = "check"
    /\ start_time = 0
    /\ ioreg_out = EmptyText
    /\ prof_out = <<>>
    /\ lpm_out = <<>>
    /\ sleep_for = 0
    /\ rpc = "getkey"
    /\ key = "none"
    /\ size = "normal"
    /\ seen = NoSeen
    /\ now = StartTime
    /\ cycles = 0
    /\ ver = [status |-> 0, metrics |-> 0, health |-> 0]
    /\ prev = InitData
    /\ appended = <<>>
    /\ prev_text = EmptyText
    /\ slows = 0
    /\ quit_at = NotQuit

collectorLocals == <<start_time, ioreg_out, prof_out, lpm_out, sleep_for>>

rendererVars == <<rpc, key, size, seen>>

marks == <<prev_text, slows, quit_at>>

history == <<cycles, ver, prev, appended, marks>>

-----------------------------------------------------------------------------
(* The Collector: DataCollector.run, lines 77-171 *)

\* lines 78-79 with the loop not testing the flag
CollectorCheckIgnoresFlag(cap) ==
    /\ cpc = "check"
    /\ cycles < cap
    /\ start_time' = now
    /\ cpc' = "fetch"
    /\ UNCHANGED <<data, lock, running, last_slow_check, ioreg_out, prof_out,
                   lpm_out, sleep_for, rendererVars, now, history>>

\* lines 78-79: the once-per-cycle test of the flag; cap bounds the cycles
CollectorCheck(cap) ==
    /\ cpc = "check"
    /\ \/ /\ running
          /\ cycles < cap
          /\ start_time' = now
          /\ cpc' = "fetch"
       \/ /\ ~running
          /\ cpc' = "done"
          /\ UNCHANGED start_time
    /\ UNCHANGED <<data, lock, running, last_slow_check, ioreg_out, prof_out,
                   lpm_out, sleep_for, rendererVars, now, history>>

\* line 83: the primary query, outside the lock; it takes d ms
CollectorFetch(blobs, delays) ==
    /\ cpc = "fetch"
    /\ \E text \in blobs, d \in delays :
          /\ ioreg_out' = text
          /\ now' = now + d
    /\ prev_text' = ioreg_out
    /\ cpc' = "lock_primary"
    /\ UNCHANGED <<data, lock, running, last_slow_check, start_time, prof_out,
                   lpm_out, sleep_for, rendererVars, cycles, ver, prev,
                   appended, slows, quit_at>>

\* line 86 entered without acquiring the lock
CollectorLockNotTaken ==
    /\ cpc = "lock_primary"
    /\ cpc' = "status"
    /\ cycles' = cycles + 1
    /\ prev' = data
    /\ UNCHANGED <<data, lock, running, last_slow_check, collectorLocals,
                   rendererVars, now, ver, appended, marks>>

\* line 86: with self.lock
CollectorLock ==
    /\ cpc = "lock_primary"
    /\ lock = "none"
    /\ lock' = "collector"
    /\ cpc' = "status"
    /\ cycles' = cycles + 1
    /\ prev' = data
    /\ UNCHANGED <<data, running, last_slow_check, collectorLocals,
                   rendererVars, now, ver, appended, marks>>

\* lines 88-103
CollectorStatus ==
    /\ cpc = "status"
    /\ data' = ParseStatus(data, ioreg_out)
    /\ ver' = [ver EXCEPT !.status = cycles]
    /\ cpc' = "metrics"
    /\ UNCHANGED <<lock, running, last_slow_check, collectorLocals,
                   rendererVars, now, cycles, prev, appended, marks>>

\* lines 105-129
CollectorMetrics ==
    /\ cpc = "metrics"
    /\ data' = ParseMetrics(data, ioreg_out)
    /\ appended' = Append(appended, data'.power_watts)
    /\ ver' = [ver EXCEPT !.metrics = cycles]
    /\ cpc' = "health"
    /\ UNCHANGED <<lock, running, last_slow_check, collectorLocals,
                   rendererVars, now, cycles, prev, marks>>

\* lines 131-154 with the with block not left before the slow check
CollectorHealthKeepsLock ==
    /\ cpc = "health"
    /\ data' = ParseHealth(data, ioreg_out, now - start_time)
    /\ ver' = [ver EXCEPT !.health = cycles]
    /\ cpc' = "slow_test"
    /\ UNCHANGED <<lock, running, last_slow_check, collectorLocals,
                   rendererVars, now, cycles, prev, appended, marks>>

\* lines 131-154, and the end of the with block
CollectorHealth ==
    /\ cpc = "health"
    /\ data' = ParseHealth(data, ioreg_out, now - start_time)
    /\ ver' = [ver EXCEPT !.health = cycles]
    /\ lock' = "none"
    /\ cpc' = "slow_test"
    /\ UNCHANGED <<running, last_slow_check, collectorLocals, rendererVars,
                   now, cycles, prev, appended, marks>>

\* line 157 with the test passing at 30 s already
SlowCheckDueAtThirty == now - last_slow_check >= SlowPeriod

\* line 157
SlowCheckDue == now - last_slow_check > SlowPeriod

\* line 157: the slow check's test
CollectorSlowTest ==
    /\ cpc = "slow_test"
    /\ cpc' = IF SlowCheckDue THEN "slow_fetch" ELSE "interval"
    /\ UNCHANGED <<data, lock, running, last_slow_check, collectorLocals,
                   rendererVars, now, history>>

\* lines 158-162: the two secondary queries, outside the lock
CollectorSlowFetch(profs, lpms, delays) ==
    /\ cpc = "slow_fetch"
    /\ prof_out' \in profs
    /\ lpm_out' \in lpms
    /\ \E d \in delays : now' = now + d
    /\ cpc' = "lock_slow"
    /\ UNCHANGED <<data, lock, running, last_slow_check, start_time,
                   ioreg_out, sleep_for, rendererVars, history>>

\* line 164: with self.lock
CollectorSlowLock ==
    /\ cpc = "lock_slow"
    /\ lock = "none"
    /\ lock' = "collector"
    /\ prev' = data
    /\ cpc' = "slow_write"
    /\ UNCHANGED <<data, running, last_slow_check, collectorLocals,
                   rendererVars, now, cycles, ver, appended, marks>>

\* lines 165-168, and the end of the with block
CollectorSlowWrite ==
    /\ cpc = "slow_write"
    /\ data' = WriteSlowFields(data, prof_out, lpm_out)
    /\ lock' = "none"
    /\ slows' = slows + 1
    /\ cpc' = "slow_stamp"
    /\ UNCHANGED <<running, last_slow_check, collectorLocals, rendererVars,
                   now, cycles, ver, prev, appended, prev_text, quit_at>>

\* line 169
CollectorSlowStamp ==
    /\ cpc = "slow_stamp"
    /\ last_slow_check' = now
    /\ cpc' = "interval"
    /\ UNCHANGED <<data, lock, running, collectorLocals, rendererVars, now,
                   history>>

\* line 171: the argument self.data.poll_interval is evaluated (no lock is
\* taken for it)
CollectorReadInterval ==
    /\ cpc = "interval"
    /\ sleep_for' = data.poll_interval
    /\ cpc' = "sleep"
    /\ UNCHANGED <<data, lock, running, last_slow_check, start_time,
                   ioreg_out, prof_out, lpm_out, rendererVars, now, history>>

\* line 171: time.sleep (the evaluated argument is gone afterwards)
CollectorSleep ==
    /\ cpc = "sleep"
    /\ now' = now + sleep_for
    /\ sleep_for' = 0
    /\ cpc' = "check"
    /\ UNCHANGED <<data, lock, running, last_slow_check, start_time,
                   ioreg_out, prof_out, lpm_out, rendererVars, history>>

-----------------------------------------------------------------------------
(* The Renderer: main_loop, lines 229-333 *)

\* What getch() may return: no key within the timeout, a command key in
\* either case, another key.
AllKeys == {"none", "q", "Q", "e", "E", "b", "B", "p", "P", "other"}

QuitKeys == {"q", "Q"}

ModeKeys == {"e", "E", "b", "B", "p", "P"}

\* What getmaxyx() may report: below 70x25, at least that with max_y <= 28,
\* and max_y > 28 (the graph is drawn).
AllSizes == {"small", "normal", "tall"}

\* lines 236, 240, 244
ModeOf(k) ==
    IF k \in {"e", "E"} THEN "ECO"
    ELSE IF k \in {"b", "B"} THEN "BALANCED"
    ELSE "PERFORMANCE"

\* lines 237, 241, 245 with the performance preset left at the balanced value
IntervalOfStale(k) ==
    IF k \in {"e", "E"} THEN EcoInterval
    ELSE BalancedInterval

\* lines 237, 241, 245
IntervalOf(k) ==
    IF k \in {"e", "E"} THEN EcoInterval
    ELSE IF k \in {"b", "B"} THEN BalancedInterval
    ELSE PerformanceInterval

\* lines 230-245: getch and the dispatch on the key; quit sets the flag and
\* breaks out of the loop
RendererGetKey(keys) ==
    /\ rpc = "getkey"
    /\ \E k \in keys :
          /\ key' = k
          /\ running' = IF k \in QuitKeys THEN FALSE ELSE running
          /\ rpc' = IF k \in QuitKeys THEN "exited"
                    ELSE IF k \in ModeKeys THEN "lock_mode"
                    ELSE "size"
          /\ quit_at' = IF k \in QuitKeys
                        THEN [cycles |-> cycles, slows |-> slows,
                              phase |-> PhaseOf(cpc)]
                        ELSE quit_at
    /\ UNCHANGED <<data, lock, last_slow_check, cpc, collectorLocals, size,
                   seen, now, cycles, ver, prev, appended, prev_text, slows>>

\* lines 235, 239, 243: with lock
RendererLockMode ==
    /\ rpc = "lock_mode"
    /\ lock = "none"
    /\ lock' = "renderer"
    /\ rpc' = "set_mode"
    /\ UNCHANGED <<data, running, last_slow_check, cpc, collectorLocals, key,
                   size, seen, now, history>>

\* lines 236, 240, 244
RendererSetMode ==
    /\ rpc = "set_mode"
    /\ data' = [data EXCEPT !.mode = ModeOf(key)]
    /\ rpc' = "set_interval"
    /\ UNCHANGED <<lock, running, last_slow_check, cpc, collectorLocals, key,
                   size, seen, now, history>>

\* lines 237, 241, 245, and the end of the with block
RendererSetInterval ==
    /\ rpc = "set_interval"
    /\ data' = [data EXCEPT !.poll_interval = IntervalOf(key)]
    /\ lock' = "none"
    /\ rpc' = "size"
    /\ UNCHANGED <<running, last_slow_check, cpc, collectorLocals, key, size,
                   seen, now, history>>

\* lines 247-252: the placeholder and continue when the terminal is too small
\* (key is not read again before the next getch: it is cleared here)
RendererCheckSize(sizes) ==
    /\ rpc = "size"
    /\ \E sz \in sizes :
          /\ size' = IF sz = "small" THEN "normal" ELSE sz
          /\ rpc' = IF sz = "small" THEN "getkey" ELSE "lock_frame"
    /\ key' = "none"
    /\ UNCHANGED <<data, lock, running, last_slow_check, cpc, collectorLocals,
                   seen, now, history>>

\* line 254: with lock
RendererLockFrame ==
    /\ rpc = "lock_frame"
    /\ lock = "none"
    /\ lock' = "renderer"
    /\ rpc' = "draw_top"
    /\ UNCHANGED <<data, running, last_slow_check, cpc, collectorLocals, key,
                   size, seen, now, history>>

\* lines 255-285: header, power source panel, battery panel
RendererDrawTop ==
    /\ rpc = "draw_top"
    /\ seen' = [seen EXCEPT !.power_source = data.power_source,
                            !.amperage_top = data.amperage,
                            !.top = ver]
    /\ rpc' = "draw_bottom"
    /\ UNCHANGED <<data, lock, running, last_slow_check, cpc, collectorLocals,
                   key, size, now, history>>

\* line 318: the columns of the graph
GraphCols == 60

\* lines 317, 321: the index of the highest of the eight bar characters
TopLevel == 7

\* line 316: max(history), of a non-empty history
MaxOf(h) == CHOOSE x \in {h[i] : i \in 1..Len(h)} :
                \A i \in 1..Len(h) : h[i] <= x

\* line 316: m_v
GraphDivisor(h) == IF MaxOf(h) > 0 THEN MaxOf(h) ELSE 1

\* line 318: g_w
GraphWidth(h) == IF Len(h) < GraphCols THEN Len(h) ELSE GraphCols

\* lines 319-321: c_idx of column i (from 1), int((v / m_v) * 7) of the
\* sample history[-(g_w - i)]
GraphLevel(h, i) ==
    (h[Len(h) - GraphWidth(h) + i] * TopLevel) \div GraphDivisor(h)

\* lines 314-322: the level of every column drawn, none for an empty history
Graph(h) ==
    IF h = <<>> THEN <<>>
    ELSE [i \in 1..GraphWidth(h) |-> GraphLevel(h, i)]

\* lines 287-329: metrics, charger panel, graph, footer, and the end of the
\* with block
RendererDrawBottom ==
    /\ rpc = "draw_bottom"
    /\ seen' = [seen EXCEPT !.charger_connected = data.charger_connected,
                            !.amperage_bottom = data.amperage,
                            !.bottom = ver,
                            !.history = IF size = "tall"
                                        THEN data.power_history ELSE <<>>,
                            !.graph = IF size = "tall"
                                      THEN Graph(data.power_history)
                                      ELSE <<>>]
    /\ lock' = "none"
    /\ rpc' = "refresh"
    /\ UNCHANGED <<data, running, last_slow_check, cpc, collectorLocals, key,
                   size, now, history>>

\* lines 331-333: refresh, the frame counter and the frame delay (the frame
\* is over: size and what the frame read are not used again and are cleared)
RendererRefresh ==
    /\ rpc = "refresh"
    /\ rpc' = "getkey"
    /\ size' = "normal"
    /\ seen' = NoSeen
    /\ UNCHANGED <<data, lock, running, last_slow_check, cpc, collectorLocals,
                   key, now, history>>

\* lines 345-349 and line 65: main_loop has returned, main() prints its
\* message and the interpreter exits.  The Collector is a daemon thread that
\* nobody joins: the exit ends it wherever it is.
ProcessExit ==
    /\ rpc = "exited"
    /\ rpc' = "terminated"
    /\ cpc' = IF cpc = "done" THEN "done" ELSE "killed"
    /\ UNCHANGED <<data, lock, running, last_slow_check, collectorLocals,
                   key, size, seen, now, history>>

-----------------------------------------------------------------------------
(* Specifications *)

\* The Collector's steps in Spec: the texts of SmallBlobs, SmallProfOuts and
\* SmallLpmOuts, queries that return at once.
CollectorNext ==
    \/ CollectorCheck(MaxCycles)
    \/ CollectorFetch(SmallBlobs, {0})
    \/ CollectorLock
    \/ CollectorStatus
    \/ CollectorMetrics
    \/ CollectorHealth
    \/ CollectorSlowTest
    \/ CollectorSlowFetch(SmallProfOuts, SmallLpmOuts, {0})
    \/ CollectorSlowLock
    \/ CollectorSlowWrite
    \/ CollectorSlowStamp
    \/ CollectorReadInterval
    \/ CollectorSleep

\* The main thread's steps: every key and terminal size.
RendererNext ==
    \/ RendererGetKey(AllKeys)
    \/ RendererLockMode
    \/ RendererSetMode
    \/ RendererSetInterval
    \/ RendererCheckSize(AllSizes)
    \/ RendererLockFrame
    \/ RendererDrawTop
    \/ RendererDrawBottom
    \/ RendererRefresh
    \/ ProcessExit

\* The whole program: both loops interleaved.
Next == CollectorNext \/ RendererNext

Spec == Init /\ [][Next]_vars

\* The Collector alone over every primary text of ParseBlobs; of the main thread,
\* only the quit command and the exit.
NextParse ==
    \/ CollectorCheck(MaxParseCycles)
    \/ CollectorFetch(ParseBlobs, {0})
    \/ CollectorLock
    \/ CollectorStatus
    \/ CollectorMetrics
    \/ CollectorHealth
    \/ CollectorSlowTest
    \/ CollectorSlowFetch({<<"Normal">>}, {<<1>>}, {0})
    \/ CollectorSlowLock
    \/ CollectorSlowWrite
    \/ CollectorSlowStamp
    \/ CollectorReadInterval
    \/ CollectorSleep
    \/ RendererGetKey(QuitKeys)
    \/ ProcessExit

SpecParse == Init /\ [][NextParse]_vars

\* The Collector alone for MaxHistCycles cycles, each cycle's text giving a
\* different power draw; of the main thread, only the quit command
\* and the exit.
NextHist ==
    \/ CollectorCheck(MaxHistCycles)
    \/ CollectorFetch({HistBlob(cycles + 1)}, {0})
    \/ CollectorLock
    \/ CollectorStatus
    \/ CollectorMetrics
    \/ CollectorHealth
    \/ CollectorSlowTest
    \/ CollectorSlowFetch({<<"Normal">>}, {<<0>>}, {0})
    \/ CollectorSlowLock
    \/ CollectorSlowWrite
    \/ CollectorSlowStamp
    \/ CollectorReadInterval
    \/ CollectorSleep
    \/ RendererGetKey(QuitKeys)
    \/ ProcessExit

SpecHist == Init /\ [][NextHist]_vars

-----------------------------------------------------------------------------
\* The Collector alone, every primary text of ParseBlobs parsed in two
\* consecutive cycles: an odd cycle draws its text, the even cycle after it
\* gets the same text again; of the main thread, only the quit command and
\* the exit.
NextIdem ==
    \/ CollectorCheck(MaxIdemCycles)
    \/ CollectorFetch(IF cycles % 2 = 1 THEN {ioreg_out} ELSE ParseBlobs, {0})
    \/ CollectorLock
    \/ CollectorStatus
    \/ CollectorMetrics
    \/ CollectorHealth
    \/ CollectorSlowTest
    \/ CollectorSlowFetch({<<"Normal">>}, {<<1>>}, {0})
    \/ CollectorSlowLock
    \/ CollectorSlowWrite
    \/ CollectorSlowStamp
    \/ CollectorReadInterval
    \/ CollectorSleep
    \/ RendererGetKey(QuitKeys)
    \/ ProcessExit

SpecIdem == Init /\ [][NextIdem]_vars

-----------------------------------------------------------------------------

\* The Collector alone on one text, each query returning at once or at its
\* timeout, so that the time since the last slow check passes through 30 s;
\* of the main thread, only the quit command and the exit.
NextSlow ==
    \/ CollectorCheck(MaxSlowCycles)
    \/ CollectorFetch({BlobA}, {0, QueryTimeout})
    \/ CollectorLock
    \/ CollectorStatus
    \/ CollectorMetrics
    \/ CollectorHealth
    \/ CollectorSlowTest
    \/ CollectorSlowFetch({<<"Normal">>}, {<<1>>}, {0, QueryTimeout})
    \/ CollectorSlowLock
    \/ CollectorSlowWrite
    \/ CollectorSlowStamp
    \/ CollectorReadInterval
    \/ CollectorSleep
    \/ RendererGetKey(QuitKeys)
    \/ ProcessExit

SpecSlow == Init /\ [][NextSlow]_vars

-----------------------------------------------------------------------------

\* Both loops on one text, with a mode command, a frame, the too-small
\* placeholder, the quit command and the exit.
NextFair ==
    \/ CollectorCheck(MaxFairCycles)
    \/ CollectorFetch({BlobA}, {0})
    \/ CollectorLock
    \/ CollectorStatus
    \/ CollectorMetrics
    \/ CollectorHealth
    \/ CollectorSlowTest
    \/ CollectorSlowFetch({<<"Normal">>}, {<<1>>}, {0})
    \/ CollectorSlowLock
    \/ CollectorSlowWrite
    \/ CollectorSlowStamp
    \/ CollectorReadInterval
    \/ CollectorSleep
    \/ RendererGetKey({"none", "e", "q"})
    \/ RendererLockMode
    \/ RendererSetMode
    \/ RendererSetInterval
    \/ RendererCheckSize({"small", "normal"})
    \/ RendererLockFrame
    \/ RendererDrawTop
    \/ RendererDrawBottom
    \/ RendererRefresh
    \/ ProcessExit

\* The lock is handed out without regard to who waits: the Collector's
\* acquire is only weakly fair, so it may lose every race for the lock.
WeakFairSpec ==
    /\ Init /\ [][NextFair]_vars
    /\ WF_vars(CollectorLock)
    /\ WF_vars(CollectorSlowLock)

\* lines 86, 164 against lines 254-333: a Collector blocked in its acquire
\* is woken when the lock is released, and the main thread stays out of the
\* lock for the frame delay and getch before it asks again; so a Collector
\* that finds the lock free again and again does get it (strong fairness of
\* the two acquires).
FairSpec ==
    /\ Init /\ [][NextFair]_vars
    /\ SF_vars(CollectorLock)
    /\ SF_vars(CollectorSlowLock)

-----------------------------------------------------------------------------

\* The Collector for MaxGraphCycles cycles on the texts of GraphBlob, and
\* the main thread drawing frames on a terminal tall enough for the graph.
NextGraph ==
    \/ CollectorCheck(MaxGraphCycles)
    \/ CollectorFetch({GraphBlob(cycles + 1)}, {0})
    \/ CollectorLock
    \/ CollectorStatus
    \/ CollectorMetrics
    \/ CollectorHealth
    \/ CollectorSlowTest
    \/ CollectorSlowFetch({<<"Normal">>}, {<<0>>}, {0})
    \/ CollectorSlowLock
    \/ CollectorSlowWrite
    \/ CollectorSlowStamp
    \/ CollectorReadInterval
    \/ CollectorSleep
    \/ RendererGetKey({"none", "q"})
    \/ RendererCheckSize({"tall"})
    \/ RendererLockFrame
    \/ RendererDrawTop
    \/ RendererDrawBottom
    \/ RendererRefresh
    \/ ProcessExit

SpecGraph == Init /\ [][NextGraph]_vars

-----------------------------------------------------------------------------

(* Properties *)

\* The primary write batch of this cycle has just ended: ioreg_out is the
\* text it parsed and prev the Snapshot before it.
AfterPrimary == cpc = "slow_test"

\* The slow check's write batch of this cycle has just ended.
AfterSlow == cpc = "slow_stamp"

NotFound(k) == ~Found(ioreg_out, k)

\* C1: a frame reads every primary field as written by one and the same
\* primary write batch: the three field groups it reads in its upper part
\* and the three it reads in its lower part all carry the same batch number,
\* the power source it drew agrees with the charger-connected flag it drew,
\* and the amperage it read twice is the same.
C1_FrameSeesOneBatch ==
    /\ rpc \in {"draw_bottom", "refresh"} =>
          /\ seen.top.status = seen.top.metrics
          /\ seen.top.metrics = seen.top.health
    /\ rpc = "refresh" =>
          /\ seen.bottom = seen.top
          /\ (seen.power_source = "AC Power") <=> seen.charger_connected
          /\ seen.amperage_bottom = seen.amperage_top

\* A frame drawn after the first batch, ended while the Collector waits with
\* the next text for the lock.
C1_Witness ==
    /\ rpc = "refresh"
    /\ cpc = "lock_primary"
    /\ seen.bottom.health = 1
    /\ seen.power_source = "AC Power"

\* C2: after a primary write batch every parsed field whose key the text
\* lacks has the value it had before the batch, and a field whose key the
\* text holds has the parsed value; likewise for the two fields of the slow
\* check.
C2_MissRetainsField ==
    /\ AfterPrimary =>
          /\ NotFound("ExternalConnected") /\ NotFound("AppleRawExternalConnected")
                => /\ data.power_source = prev.power_source
                   /\ data.charger_connected = prev.charger_connected
          /\ NotFound("IsCharging") /\ NotFound("FullyCharged")
                => data.charging_status = prev.charging_status
          /\ NotFound("CurrentCapacity")
                => data.battery_percent = prev.battery_percent
          /\ NotFound("TimeRemaining")
                => data.time_remaining = prev.time_remaining
          /\ NotFound("Temperature") => data.temperature = prev.temperature
          /\ NotFound("Voltage") => data.voltage = prev.voltage
          /\ NotFound("InstantAmperage") /\ NotFound("Amperage")
                => data.amperage = prev.amperage
          /\ NotFound("CycleCount") => data.cycle_count = prev.cycle_count
          /\ ~NotFound("CycleCount")
                => data.cycle_count = Group1(ioreg_out, "CycleCount")
          /\ NotFound("DesignCapacity")
                => data.design_capacity = prev.design_capacity
          /\ NotFound("AppleRawMaxCapacity")
                => /\ data.current_capacity = prev.current_capacity
                   /\ data.max_capacity_percent = prev.max_capacity_percent
          /\ NotFound("AdapterDetails")
                => /\ data.adapter_voltage = prev.adapter_voltage
                   /\ data.adapter_current = prev.adapter_current
                   /\ data.charger_wattage = prev.charger_wattage
    /\ AfterSlow =>
          /\ prof_out = <<>> => data.condition = prev.condition
          /\ lpm_out = <<>> => data.low_power_mode = prev.low_power_mode

\* The fields the primary query feeds.
PrimaryFields(d) ==
    <<d.power_source, d.charger_connected, d.charging_status,
      d.battery_percent, d.time_remaining, d.temperature, d.voltage,
      d.amperage, d.cycle_count, d.design_capacity, d.current_capacity,
      d.max_capacity_percent, d.adapter_voltage, d.adapter_current,
      d.charger_wattage>>

\* C3: a query that failed (empty text) leaves the fields it feeds as they
\* were: the primary fields after a failed primary query, condition and
\* low_power_mode after failed secondary queries.
C3_FailedFetchChangesNothing ==
    /\ AfterPrimary /\ ioreg_out = EmptyText
          => PrimaryFields(data) = PrimaryFields(prev)
    /\ AfterSlow /\ prof_out = <<>> /\ lpm_out = <<>>
          => /\ data.condition = prev.condition
             /\ data.low_power_mode = prev.low_power_mode

\* C4: after a primary write batch whose text holds CurrentCapacity <=
\* MaxCapacity, the battery percent lies in 0..100.
C4_PercentInRange ==
    AfterPrimary /\ ~NotFound("CurrentCapacity") /\ ~NotFound("MaxCapacity")
        /\ Group1(ioreg_out, "CurrentCapacity") <= Group1(ioreg_out, "MaxCapacity")
    => data.battery_percent \in 0..100

\* C5: after a primary write batch whose text holds a raw amperage r in the
\* unsigned range, the stored amperage is r - Modulus when r >= SignBit and
\* r otherwise.
C5_AmperageTwosComplement ==
    AfterPrimary /\ AmperageMatch(ioreg_out) # <<>>
        /\ AmperageMatch(ioreg_out)[1] \in 0..(Modulus - 1)
    => LET r == AmperageMatch(ioreg_out)[1]
       IN  data.amperage = IF r >= SignBit THEN r - Modulus ELSE r

\* The strings the claim gives or implies for the raw values of TimeRaws.
ExpectedTime ==
    [m \in TimeRaws |->
        CASE m = 0 -> "0h 0m"
          [] m = 59 -> "0h 59m"
          [] m = 60 -> "1h 0m"
          [] m = 125 -> "2h 5m"
          [] m = 65534 -> "1092h 14m"
          [] m = 65535 -> "Calculating..."]

\* C6: after a primary write batch whose text holds TimeRemaining = m, the
\* stored string is "Calculating..." when m = 65535 and otherwise the hours
\* m div 60, "h ", the minutes m mod 60, "m"; it is never "1092h 15m".
C6_TimeRemainingFormat ==
    AfterPrimary /\ ~NotFound("TimeRemaining")
    => LET m == Group1(ioreg_out, "TimeRemaining")
       IN  /\ m = 65535 => data.time_remaining = "Calculating..."
           /\ m # 65535 =>
                 data.time_remaining =
                     IntToStr(m \div 60) \o "h " \o IntToStr(m % 60) \o "m"
           /\ m \in TimeRaws => data.time_remaining = ExpectedTime[m]
           /\ data.time_remaining # "1092h 15m"

\* The sentinel has been parsed over an earlier duration.
C6_Witness ==
    /\ AfterPrimary
    /\ ioreg_out["TimeRemaining"] = <<65535>>
    /\ prev.time_remaining = "2h 5m"
    /\ data.time_remaining = "Calculating..."

\* C7: whenever the Collector does not hold the lock, the stored power draw
\* is voltage x |amperage| / 1000 of the stored voltage and amperage, to the
\* two decimals the code keeps (within half of 0.01 W), and is >= 0; the
\* last history sample is that power draw.
C7_PowerNeverStale ==
    lock # "collector" =>
        /\ Abs(data.power_watts * 10000 - data.voltage * Abs(data.amperage))
               <= 5000
        /\ data.power_watts >= 0
        /\ cycles > 0 =>
               data.power_history[Len(data.power_history)] = data.power_watts

\* A batch whose text lacks Voltage has changed the amperage and the power.
C7_Witness ==
    /\ AfterPrimary
    /\ NotFound("Voltage")
    /\ data.voltage = 12400
    /\ data.amperage = -500
    /\ data.power_watts = 620
    /\ prev.power_watts = 1860

Min(a, b) == IF a < b THEN a ELSE b

LastN(s, n) == SubSeq(s, Len(s) - n + 1, Len(s))

\* C8: each history holds at most 100 samples, and the power history is the
\* last min(100, n) of the n samples appended so far, in append order.
C8_HistoryKeepsLast100 ==
    /\ Len(data.power_history) <= 100
    /\ Len(data.temp_history) <= 100
    /\ data.power_history = LastN(appended, Min(100, Len(appended)))

\* 150 samples appended, the last 100 kept.
C8_Witness ==
    /\ Len(appended) = 150
    /\ Len(data.power_history) = 100
    /\ data.power_history[1] = appended[51]
    /\ appended[1] # appended[51]

\* C9: right after a mode command the pair (mode, poll interval) is the
\* preset of the command's key, and whenever the lock is free the pair is
\* one of the three presets.
C9_ModePresets ==
    /\ lock = "none" =>
          <<data.mode, data.poll_interval>> \in
              {<<"ECO", 5000>>, <<"BALANCED", 2000>>, <<"PERFORMANCE", 500>>}
    /\ rpc = "size" /\ key \in {"e", "E"} =>
          data.mode = "ECO" /\ data.poll_interval = 5000
    /\ rpc = "size" /\ key \in {"b", "B"} =>
          data.mode = "BALANCED" /\ data.poll_interval = 2000
    /\ rpc = "size" /\ key \in {"p", "P"} =>
          data.mode = "PERFORMANCE" /\ data.poll_interval = 500

\* The performance command has been handled while the Collector sleeps for
\* the eco interval (the mode before the command was eco).
C9_Witness ==
    /\ rpc = "size"
    /\ key = "P"
    /\ data.mode = "PERFORMANCE"
    /\ data.poll_interval = 500
    /\ sleep_for = 5000

\* C10: once the Renderer has handled quit, the flag is down and the main
\* thread never holds the lock again; the Collector ends by observing the
\* flag at its once-per-cycle check (its terminal state "done"), wherever in
\* its cycle it was: when the process is over, the Collector has terminated
\* on its own.
C10_QuitStopsCollector ==
    /\ rpc \in {"exited", "terminated"} => ~running /\ lock # "renderer"
    /\ rpc = "terminated" => cpc = "done"


\* The fields a primary write batch parses out of the text: the primary
\* fields and the power draw (not the histories, not the latency).
ParsedFields(d) == <<PrimaryFields(d), d.power_watts>>

\* C11: when a primary cycle parses the same text as the cycle before it,
\* every parsed field is after this cycle's write batch what it was after
\* the previous cycle's, whatever the text and whatever the Snapshot was
\* before the two cycles.
C11_ParseIdempotent ==
    AfterPrimary /\ cycles >= 2 /\ prev_text = ioreg_out
        => ParsedFields(data) = ParsedFields(prev)

\* The second pair of cycles has parsed BlobB twice, over a Snapshot the
\* first pair had filled from another text.
C11_Witness ==
    /\ AfterPrimary /\ cycles = 4
    /\ prev_text = ioreg_out /\ ioreg_out = BlobB
    /\ Len(data.power_history) = 4
    /\ data.power_history[1] # data.power_history[4]
    /\ data.power_history[3] = data.power_history[4]

\* The Snapshot fields the mode commands write.
ModeFields(d) == <<d.mode, d.poll_interval>>

\* Every other Snapshot field, the histories included.
NonModeFields(d) == [d EXCEPT !.mode = "", !.poll_interval = 0]

\* C12: no step of the Collector changes the poll mode or the poll interval,
\* and no step of the main thread (key handling, the too-small placeholder,
\* a frame, the exit) changes any other Snapshot field, histories included.
C12_WriteOwnership ==
    [][/\ CollectorNext => ModeFields(data') = ModeFields(data)
       /\ RendererNext => NonModeFields(data') = NonModeFields(data)]_vars

\* Both sides have written: the Collector has filled the Snapshot from a
\* text and from a slow check while a mode command has set ECO, and a frame
\* has been drawn.
C12_Witness ==
    /\ cycles >= 1 /\ slows >= 1
    /\ data.power_source = "AC Power" /\ data.low_power_mode
    /\ Len(data.power_history) >= 1
    /\ data.mode = "ECO" /\ data.poll_interval = EcoInterval
    /\ rpc = "refresh"

\* C13: every primary write batch appends exactly one sample to the power
\* history and one to the temperature history, so after k batches each
\* history holds min(k, 100) samples.
C13_BothHistoriesGrow ==
    lock # "collector"
        => /\ Len(data.power_history) = Min(cycles, HistCap)
           /\ Len(data.temp_history) = Min(cycles, HistCap)

\* What the code does: the power history grows by one sample per batch up
\* to its capacity, the temperature history stays empty.
C13_OnlyPowerHistoryGrows ==
    lock # "collector"
        => /\ Len(data.power_history) = Min(cycles, HistCap)
           /\ data.temp_history = <<>>

\* Positions at which the Collector is blocked: in a query or asleep.
CollectorBlocked == cpc \in {"fetch", "slow_fetch", "sleep"}

\* Positions at which the main thread is blocked: waiting for a key or in
\* the frame delay.
RendererBlocked == rpc \in {"getkey", "refresh"}

\* Positions inside a with-lock block.
CollectorInBlock == cpc \in {"status", "metrics", "health", "slow_write"}
RendererInBlock == rpc \in {"set_mode", "set_interval", "draw_top", "draw_bottom"}

\* C14: neither thread holds the lock while it is blocked (the Collector in
\* a primary or secondary query or asleep, the main thread waiting for a key
\* or in the frame delay), and the two are never inside a with-lock block at
\* the same time.
C14_NoLockWhileBlocked ==
    /\ CollectorBlocked => lock # "collector"
    /\ RendererBlocked => lock # "renderer"
    /\ ~(CollectorInBlock /\ RendererInBlock)
    /\ CollectorInBlock => lock = "collector"
    /\ RendererInBlock => lock = "renderer"

\* The Collector is in a secondary query while the main thread draws a frame
\* under the lock.
C14_Witness ==
    /\ cpc = "slow_fetch" /\ rpc = "draw_top" /\ lock = "renderer"
    /\ cycles >= 1

\* C15: the step in which the Collector reads the poll interval for its
\* sleep is taken while the Collector holds the lock.
C15_IntervalReadUnderLock ==
    [][cpc = "interval" /\ cpc' = "sleep" => lock = "collector"]_vars

\* C15, its consequence: the read never falls between the two writes of a
\* mode command.
C15_ReadOutsideModeCommand ==
    [][cpc = "interval" /\ cpc' = "sleep" => rpc # "set_interval"]_vars

\* The Collector is in this cycle's slow check.
InSlowCheck == cpc \in {"slow_fetch", "lock_slow", "slow_write", "slow_stamp"}

\* The Collector has passed this cycle's slow check, done or skipped.
PastSlowCheck == cpc = "interval"

\* C16 as stated: a cycle performs the slow check if and only if at least
\* 30 s have passed since the last one, exactly 30 s included; two slow
\* checks are never less than 30 s apart, and the first cycle performs one.
C16_SlowCheckAtThirtySeconds ==
    /\ InSlowCheck => now - last_slow_check >= SlowPeriod
    /\ PastSlowCheck => now - last_slow_check < SlowPeriod
    /\ PastSlowCheck /\ cycles >= 1 => slows >= 1

\* C16 amended: a cycle performs the slow check if and only if more than
\* 30 s have passed since the last one, so at exactly 30 s it is skipped;
\* two slow checks are always more than 30 s apart, and the first cycle
\* performs one.
C16_SlowCheckAfterThirtySeconds ==
    /\ InSlowCheck => now - last_slow_check > SlowPeriod
    /\ PastSlowCheck => now - last_slow_check <= SlowPeriod
    /\ PastSlowCheck /\ cycles >= 1 => slows >= 1

\* A cycle has skipped the slow check with exactly 30 s passed since the
\* first one.
C16_Witness ==
    /\ PastSlowCheck /\ now - last_slow_check = SlowPeriod
    /\ slows = 1 /\ cycles > 1

\* A later cycle has performed the second slow check.
C16_SecondSlowCheck ==
    PastSlowCheck /\ slows = 2 /\ now = last_slow_check

\* The Collector is waiting to acquire the lock for a write batch.
CollectorWaiting == cpc \in {"lock_primary", "lock_slow"}

\* C17: in a run in which the main thread keeps acquiring the lock for frame
\* after frame, a Collector that waits for the lock eventually holds it.
C17_CollectorNotStarved ==
    []<>(rpc = "lock_frame") => (CollectorWaiting ~> lock = "collector")

\* The Collector waits for the lock while the main thread draws a frame
\* under it.
C17_Witness ==
    /\ CollectorWaiting /\ lock = "renderer"
    /\ rpc \in {"draw_top", "draw_bottom"}

\* The samples a drawn graph shows: the last min(60, length) of the history
\* the frame read.
Visible(h) == LastN(h, Min(GraphCols, Len(h)))

\* C18: a drawn graph of a non-empty history has one column for each of the
\* most recent min(60, length) samples; each column's level is the sample
\* times 7 divided by the largest visible sample (by 1 when that is 0),
\* cut to a whole number in 0..7; and a positive largest visible sample has
\* level 7.
C18_GraphScaledToVisibleMax ==
    rpc = "refresh" /\ seen.history # <<>>
        => LET vis == Visible(seen.history)
               m   == MaxOf(vis)
               div == IF m = 0 THEN 1 ELSE m
           IN  /\ Len(seen.graph) = Len(vis)
               /\ \A i \in 1..Len(vis) :
                     /\ seen.graph[i] = (vis[i] * 7) \div div
                     /\ seen.graph[i] \in 0..7
               /\ m > 0 => \E i \in 1..Len(vis) :
                              vis[i] = m /\ seen.graph[i] = 7

\* What the code does: the same, with the largest sample of the whole
\* history in place of the largest visible one.
C18_GraphScaledToHistoryMax ==
    rpc = "refresh" /\ seen.history # <<>>
        => LET vis == Visible(seen.history)
               m   == MaxOf(seen.history)
               div == IF m = 0 THEN 1 ELSE m
           IN  /\ Len(seen.graph) = Len(vis)
               /\ \A i \in 1..Len(vis) :
                     /\ seen.graph[i] = (vis[i] * 7) \div div
                     /\ seen.graph[i] \in 0..7

\* A graph of an all-zero history has been drawn (the divisor is 1).
C18_ZeroHistoryDrawn ==
    rpc = "refresh" /\ seen.history = <<0>> /\ seen.graph = <<0>>

\* The write batches the Collector may still do once the flag is cleared,
\* by where it was then: the primary batch of the cycle it had begun if that
\* batch had not begun yet, and that cycle's slow-check batch if it had not
\* been done yet.
PrimaryAllowance == IF quit_at.phase = "before_batch" THEN 1 ELSE 0

SlowAllowance == IF quit_at.phase \in {"before_batch", "in_cycle"} THEN 1 ELSE 0

\* C19: once the flag is cleared the Collector does at most one more
\* primary write batch and at most one more slow-check write batch, those of
\* the cycle it was in; and none at all if it was asleep (or between its
\* last write of a cycle and the next test of the flag).
C19_AtMostOneMoreBatch ==
    quit_at.phase # "none"
        => /\ cycles <= quit_at.cycles + PrimaryAllowance
           /\ slows <= quit_at.slows + SlowAllowance
           /\ quit_at.phase = "idle"
                 => /\ cycles = quit_at.cycles /\ slows = quit_at.slows
                    /\ cpc \in {"slow_stamp", "interval", "sleep", "check",
                                "done", "killed"}

\* The flag was cleared during a primary query; the Collector has done that
\* cycle's primary batch and slow-check batch and has left its loop.
C19_Witness ==
    /\ quit_at.phase = "before_batch"
    /\ cycles = quit_at.cycles + 1
    /\ slows = quit_at.slows + 1
    /\ cpc = "done"

\* The flag was cleared while the Collector slept after a cycle; it has left
\* its loop without another write.
C19_QuitWhileAsleep ==
    /\ quit_at.phase = "idle" /\ quit_at.cycles = 1
    /\ cycles = 1 /\ cpc = "done"

\* C20: whenever the Collector does not hold the lock and a primary write
\* batch has been done, the status fields agree: the power source is
\* 'AC Power' with a charger connected and 'Battery' without; the charging
\* status is 'Discharging' only without a charger and 'Connected' only with
\* one; and after a batch whose text says both FullyCharged and IsCharging
\* the status is 'Fully Charged'.
C20_StatusFieldsAgree ==
    lock # "collector" /\ cycles >= 1
        => /\ data.power_source =
                 IF data.charger_connected THEN "AC Power" ELSE "Battery"
           /\ data.charging_status = "Discharging" => ~data.charger_connected
           /\ data.charging_status = "Connected" => data.charger_connected
           /\ data.charging_status
                 \in {"Fully Charged", "Charging", "Discharging", "Connected"}
           /\ AfterPrimary /\ HasYes(ioreg_out, "FullyCharged")
                 => data.charging_status = "Fully Charged"

\* A batch has parsed a text that says both FullyCharged and IsCharging, on
\* AC power.
C20_Witness ==
    /\ AfterPrimary /\ lock # "collector"
    /\ HasYes(ioreg_out, "FullyCharged") /\ HasYes(ioreg_out, "IsCharging")
    /\ data.charging_status = "Fully Charged"
    /\ data.power_source = "AC Power" /\ data.charger_connected

\* Batches have left 'Discharging' without a charger and 'Connected' with one.
C20_BothIdleStatusesSeen ==
    /\ AfterPrimary /\ cycles = 2
    /\ prev.charging_status = "Discharging" /\ ~prev.charger_connected
    /\ data.charging_status = "Connected" /\ data.charger_connected
=============================================================================
